---- MODULE Spec2Model ----
(***************************************************************************)
(* Model of testsetup/oauth_validator_module/dummy_validator.c: a dummy    *)
(* OAuth validator module.  The module exports a constant callback table   *)
(* and one hook, validate, which logs the token and the role, duplicates   *)
(* the token into result->authn_id and accepts.                            *)
(*                                                                         *)
(* Memory is a sequence of chunks; a pointer is the index of a chunk and   *)
(* NULL is 0.  A chunk names an allocation (an address may be reused by    *)
(* the allocator once the host frees it; an allocation is never reused).   *)
(* A C string is the bytes of a buffer before its first byte 0.             *)
(***************************************************************************)
EXTENDS Integers, Sequences, FiniteSets, TLC

\* ------------------------------------------------------------------ bounds
MaxCalls == 2

\* --------------------------------------------------------------- constants
NULL == 0

\* The address of the function validate (a code address, not a chunk).
ValidateAddr == -1

\* The address of the static object callbacks (a data address, not a chunk).
AddrCallbacks == -2

\* libpq/oauth.h: #define PG_OAUTH_VALIDATOR_MAGIC 0x20250220
PG_OAUTH_VALIDATOR_MAGIC == 539296288

\* The token buffers the host presents: the empty token, a one-byte and a
\* two-byte token, and a token followed by other bytes of the host's message.
Tokens == {<<0>>, <<2, 0>>, <<2, 1, 0>>, <<1, 2, 0, 1>>}

\* The host's memory before the first call: the role names (port->user_name);
\* the second one lies in a larger buffer, with bytes after its terminator.
HostBufs == << <<1, 0>>, <<2, 1, 0, 2>> >>

Roles == 1..Len(HostBufs)

\* The ValidatorModuleState values the host may pass.
ModuleStates == [sversion : {"PG_VERSION_NUM"}, private_data : {NULL, 1}]

\* ------------------------------------------------------------ C strings
RECURSIVE strlenFrom(_, _)
strlenFrom(buf, i) ==
  IF i > Len(buf) \/ buf[i] = 0 THEN i - 1 ELSE strlenFrom(buf, i + 1)

strlen(buf) == strlenFrom(buf, 1)

\* The content of the C string held in buf: the bytes before the first 0.
CStr(buf) == SubSeq(buf, 1, strlen(buf))

\* A duplicate that drops the last character (off by one in the length).
pstrdup_short(buf) ==
  LET len == strlen(buf)
  IN  IF len = 0 THEN <<0>> ELSE Append(SubSeq(buf, 1, len - 1), 0)

\* pstrdup: len = strlen(in) + 1; out = palloc(len); memcpy(out, in, len).
pstrdup(buf) ==
  LET len == strlen(buf) + 1
  IN  [i \in 1..len |-> buf[i]]

\* elog's message: the format "accept token '%s' for role '%s'" filled in.
Format(token, role) ==
  <<"accept token '", CStr(token), "' for role '", CStr(role), "'">>

\* --------------------------------------------------------------- state
VARIABLES
  callbacks,   \* the static object callbacks
  mem,         \* the chunks allocated so far: [by, buf]
  log,         \* the server log: the records elog emitted
  pc,          \* the position in validate: "idle" or the line about to run
  state,       \* argument: *state (ValidatorModuleState)
  token,       \* argument: token (a chunk)
  role,        \* argument: role (a chunk)
  result,      \* argument: *result (ValidatorModuleResult)
  authn_id,    \* validate's local variable
  hostTable,   \* the table pointer the host holds (NULL before init)
  initRet,     \* what init returned: the first and the latest return
  started,     \* the host has passed its startup step
  stopped,     \* the host has passed its shutdown step
  calls        \* the completed validate calls, each with the value it returned

vars == <<callbacks, mem, log, pc, state, token, role, result, authn_id,
          hostTable, initRet, started, stopped, calls>>

\* A table without a validate hook.
CallbacksInit_novalidate ==
  [magic |-> PG_OAUTH_VALIDATOR_MAGIC, startup_cb |-> NULL,
   shutdown_cb |-> NULL, validate_cb |-> NULL]

\* const OAuthValidatorCallbacks callbacks = { ... }
CallbacksInit ==
  [magic |-> PG_OAUTH_VALIDATOR_MAGIC, startup_cb |-> NULL,
   shutdown_cb |-> NULL, validate_cb |-> ValidateAddr]

\* The zeroed ValidatorModuleResult the host hands to validate.
ZeroResult == [authn_id |-> NULL, authorized |-> FALSE]

Init ==
  /\ callbacks = CallbacksInit
  /\ mem = [i \in 1..Len(HostBufs) |-> [by |-> "host", buf |-> HostBufs[i]]]
  /\ log = <<>>
  /\ pc = "idle"
  /\ state \in ModuleStates
  /\ token = NULL
  /\ role = NULL
  /\ result = ZeroResult
  /\ authn_id = NULL
  /\ hostTable = NULL
  /\ initRet = <<>>
  /\ started = FALSE
  /\ stopped = FALSE
  /\ calls = <<>>

\* ------------------------------------------------------------------ init
\* An init that hands out no table.
PG_oauth_validator_module_init_null == NULL

\* _PG_oauth_validator_module_init: return &callbacks.
PG_oauth_validator_module_init == AddrCallbacks

\* The object a table pointer refers to.
Deref(p) == IF p = AddrCallbacks THEN callbacks ELSE NULL

\* The host calls init and keeps the pointer it returns.
ModuleInit ==
  /\ pc = "idle"
  /\ LET p == PG_oauth_validator_module_init
         r == [ptr |-> p, table |-> Deref(p), after |-> Len(calls)]
     IN  /\ hostTable' = p
         /\ initRet' = IF initRet = <<>> THEN <<r>> ELSE <<initRet[1], r>>
  /\ UNCHANGED <<callbacks, mem, log, pc, state, token, role, result,
                 authn_id, started, stopped, calls>>

\* The host's startup step: startup_cb is NULL, so no module code runs.
HostStartup ==
  /\ pc = "idle"
  /\ hostTable # NULL
  /\ ~started /\ ~stopped
  /\ Deref(hostTable).startup_cb = NULL
  /\ started' = TRUE
  /\ UNCHANGED <<callbacks, mem, log, pc, state, token, role, result,
                 authn_id, hostTable, initRet, stopped, calls>>

\* The host's shutdown step: shutdown_cb is NULL, so no module code runs.
HostShutdown ==
  /\ pc = "idle"
  /\ hostTable # NULL
  /\ ~stopped
  /\ Deref(hostTable).shutdown_cb = NULL
  /\ stopped' = TRUE
  /\ UNCHANGED <<callbacks, mem, log, pc, state, token, role, result,
                 authn_id, hostTable, initRet, started, calls>>

\* -------------------------------------------------------------- validate
\* The host can dispatch a request: it holds a table that passed the magic
\* check and whose validate_cb is set.
CanDispatch ==
  /\ hostTable # NULL
  /\ Deref(hostTable).magic = PG_OAUTH_VALIDATOR_MAGIC
  /\ Deref(hostTable).validate_cb = ValidateAddr

\* The host calls validate_cb(state, token, role, result): the token is in a
\* buffer of the host's, the result is zeroed.
ValidateCall(st, tok, r) ==
  /\ pc = "idle"
  /\ CanDispatch
  /\ Len(calls) < MaxCalls
  /\ mem' = Append(mem, [by |-> "host", buf |-> tok])
  /\ token' = Len(mem) + 1
  /\ role' = r
  /\ state' = st
  /\ result' = ZeroResult
  /\ authn_id' = NULL
  /\ pc' = "L10"
  /\ UNCHANGED <<callbacks, log, hostTable, initRet, started, stopped, calls>>

\* A validate that does not log.
ValidateElog_silent ==
  /\ pc = "L10"
  /\ pc' = "L11"
  /\ UNCHANGED <<callbacks, mem, log, state, token, role, result, authn_id,
                 hostTable, initRet, started, stopped, calls>>

\* line 10: elog(LOG, "accept token '%s' for role '%s'", token, role);
ValidateElog ==
  /\ pc = "L10"
  /\ log' = Append(log, [level |-> "LOG",
                         msg |-> Format(mem[token].buf, mem[role].buf)])
  /\ pc' = "L11"
  /\ UNCHANGED <<callbacks, mem, state, token, role, result, authn_id,
                 hostTable, initRet, started, stopped, calls>>

\* A validate that duplicates the role.
ValidatePstrdup_role ==
  /\ pc = "L11"
  /\ mem' = Append(mem, [by |-> "pstrdup", buf |-> pstrdup(mem[role].buf)])
  /\ authn_id' = Len(mem) + 1
  /\ pc' = "L12"
  /\ UNCHANGED <<callbacks, log, state, token, role, result, hostTable,
                 initRet, started, stopped, calls>>

\* line 11: char *authn_id = pstrdup(token);
ValidatePstrdup ==
  /\ pc = "L11"
  /\ mem' = Append(mem, [by |-> "pstrdup", buf |-> pstrdup(mem[token].buf)])
  /\ authn_id' = Len(mem) + 1
  /\ pc' = "L12"
  /\ UNCHANGED <<callbacks, log, state, token, role, result, hostTable,
                 initRet, started, stopped, calls>>

\* A validate that hands out the token buffer itself.
ValidateSetAuthnId_alias ==
  /\ pc = "L12"
  /\ result' = [result EXCEPT !.authn_id = token]
  /\ pc' = "L13"
  /\ UNCHANGED <<callbacks, mem, log, state, token, role, authn_id,
                 hostTable, initRet, started, stopped, calls>>

\* A validate that also keeps the duplicate in the module state.
ValidateSetAuthnId_keep ==
  /\ pc = "L12"
  /\ result' = [result EXCEPT !.authn_id = authn_id]
  /\ state' = [state EXCEPT !.private_data = authn_id]
  /\ pc' = "L13"
  /\ UNCHANGED <<callbacks, mem, log, token, role, authn_id,
                 hostTable, initRet, started, stopped, calls>>

\* line 12: result->authn_id = authn_id;
ValidateSetAuthnId ==
  /\ pc = "L12"
  /\ result' = [result EXCEPT !.authn_id = authn_id]
  /\ pc' = "L13"
  /\ UNCHANGED <<callbacks, mem, log, state, token, role, authn_id,
                 hostTable, initRet, started, stopped, calls>>

\* A validate that accepts only when a startup hook left private data.
ValidateSetAuthorized_needstartup ==
  /\ pc = "L13"
  /\ result' = [result EXCEPT !.authorized = (state.private_data # NULL)]
  /\ pc' = "L14"
  /\ UNCHANGED <<callbacks, mem, log, state, token, role, authn_id,
                 hostTable, initRet, started, stopped, calls>>

\* line 13: result->authorized = true;
ValidateSetAuthorized ==
  /\ pc = "L13"
  /\ result' = [result EXCEPT !.authorized = TRUE]
  /\ pc' = "L14"
  /\ UNCHANGED <<callbacks, mem, log, state, token, role, authn_id,
                 hostTable, initRet, started, stopped, calls>>

\* The record of a call that returns rv now.
CallRecord(rv) ==
  [state |-> state, token |-> token, role |-> role, ret |-> rv,
   result |-> result]

\* A validate that returns false.
ValidateReturn_false ==
  /\ pc = "L14"
  /\ calls' = Append(calls, CallRecord(FALSE))
  /\ authn_id' = NULL
  /\ pc' = "idle"
  /\ UNCHANGED <<callbacks, mem, log, state, token, role, result, hostTable,
                 initRet, started, stopped>>

\* line 14: return true;  (the frame, and with it the local authn_id, is gone)
ValidateReturn ==
  /\ pc = "L14"
  /\ calls' = Append(calls, CallRecord(TRUE))
  /\ authn_id' = NULL
  /\ pc' = "idle"
  /\ UNCHANGED <<callbacks, mem, log, state, token, role, result, hostTable,
                 initRet, started, stopped>>

\* A step of validate's body.
ValidateStep ==
  \/ ValidateElog
  \/ ValidatePstrdup
  \/ ValidateSetAuthnId
  \/ ValidateSetAuthorized
  \/ ValidateReturn

Next ==
  \/ ModuleInit
  \/ HostStartup
  \/ HostShutdown
  \/ \E st \in ModuleStates, tok \in Tokens, r \in Roles : ValidateCall(st, tok, r)
  \/ ValidateStep

Spec == Init /\ [][Next]_vars

\* ------------------------------------------------------------ properties
\* The content of the C string a chunk holds.
StrAt(p) == CStr(mem[p].buf)

\* A call is past line 10 / past line 11.
Logged == pc \in {"L11", "L12", "L13", "L14"}

Duplicated == pc \in {"L12", "L13", "L14"}

\* C1: every validate call, whatever its token, role and module state and
\* whatever came before it, returns true and leaves result.authorized true.
C1_AlwaysAccepts ==
  /\ \A i \in DOMAIN calls :
       calls[i].ret = TRUE /\ calls[i].result.authorized = TRUE
  /\ (pc = "idle" /\ calls # <<>>) => result.authorized = TRUE

C1_Witness ==
  /\ Len(calls) = 2
  /\ calls[1].state.private_data = NULL
  /\ calls[2].state.private_data # NULL
  /\ StrAt(calls[1].token) # <<>>
  /\ StrAt(calls[2].token) = <<>>
  /\ calls[1].role # calls[2].role
  /\ calls[2].ret = TRUE

\* C2: after validate returns, result.authn_id is a C string whose content is
\* the token's, character for character (the empty token included), whatever
\* the role.
C2_AuthnIdIsToken ==
  \A i \in DOMAIN calls :
    LET a == calls[i].result.authn_id
    IN  /\ a \in DOMAIN mem
        /\ mem[a].buf[Len(mem[a].buf)] = 0
        /\ StrAt(a) = StrAt(calls[i].token)

C2_Witness ==
  /\ Len(calls) = 2
  /\ StrAt(calls[1].token) = <<>>
  /\ StrAt(calls[1].result.authn_id) = <<>>
  /\ StrAt(calls[2].token) = <<2>>
  /\ StrAt(calls[2].result.authn_id) = <<2>>
  /\ StrAt(calls[2].role) = <<1>>

\* C3 (as stated): the table init returns has an implementation for each of
\* the three hooks startup, shutdown and validate.
C3_ThreeHooks ==
  \A k \in DOMAIN initRet :
    /\ initRet[k].table.startup_cb # NULL
    /\ initRet[k].table.shutdown_cb # NULL
    /\ initRet[k].table.validate_cb # NULL

\* C3 (amended): the table init returns has an implementation for the validate
\* hook only; its startup_cb and shutdown_cb entries are NULL.
C3_ValidateHookOnly ==
  \A k \in DOMAIN initRet :
    /\ initRet[k].ptr # NULL
    /\ initRet[k].table.validate_cb = ValidateAddr
    /\ initRet[k].table.startup_cb = NULL
    /\ initRet[k].table.shutdown_cb = NULL

C3_Witness ==
  /\ initRet # <<>>
  /\ hostTable = AddrCallbacks
  /\ started /\ stopped

\* C4: every call of init returns the same table, with magic
\* PG_OAUTH_VALIDATOR_MAGIC and validate_cb = validate; neither init nor a
\* callback changes the table, so init after any number of validate calls
\* returns what the first init returned.
C4_SameTable ==
  /\ \A k \in DOMAIN initRet :
       /\ initRet[k].ptr = AddrCallbacks
       /\ initRet[k].ptr = initRet[1].ptr
       /\ initRet[k].table = initRet[1].table
       /\ initRet[k].table.magic = PG_OAUTH_VALIDATOR_MAGIC
       /\ initRet[k].table.validate_cb = ValidateAddr
  /\ initRet # <<>> => callbacks = initRet[1].table

C4_Witness ==
  /\ Len(initRet) = 2
  /\ initRet[1].after = 0
  /\ initRet[2].after = 2
  /\ Len(calls) = 2

\* The chunks pstrdup allocated.
Dups == {c \in DOMAIN mem : mem[c].by = "pstrdup"}

\* C5: each validate call makes exactly one duplicate; at return
\* result.authn_id is a chunk allocated during the call, distinct from the
\* token buffer and from the authn_id of every earlier call, and the module
\* keeps no reference to it (its local is gone, the module state does not
\* point to it).
C5_FreshDuplicate ==
  /\ Cardinality(Dups) = Len(calls) + (IF Duplicated THEN 1 ELSE 0)
  /\ \A i \in DOMAIN calls :
       LET a == calls[i].result.authn_id
       IN  /\ a \in Dups
           /\ a > calls[i].token
           /\ a # calls[i].token
           /\ a # calls[i].role
           /\ \A j \in 1..(i - 1) : a # calls[j].result.authn_id
           /\ calls[i].state.private_data # a
  /\ pc = "idle" => (authn_id = NULL /\ state.private_data \notin Dups)

C5_Witness ==
  /\ Len(calls) = 2
  /\ pc = "idle"
  /\ StrAt(calls[1].token) = StrAt(calls[2].token)
  /\ calls[1].result.authn_id # calls[2].result.authn_id
  /\ Cardinality(Dups) = 2

\* The log record of a call with the given token and role chunks.
LogRecordOf(tok, r) ==
  [level |-> "LOG",
   msg |-> <<"accept token '", StrAt(tok), "' for role '", StrAt(r), "'">>]

\* C6: every validate call emits exactly one record at level LOG with its
\* token and its role, before result.authn_id and result.authorized are
\* written; the records are in call order, one per call.
C6_OneLogPerCall ==
  /\ Len(log) = Len(calls) + (IF Logged THEN 1 ELSE 0)
  /\ \A i \in DOMAIN calls : log[i] = LogRecordOf(calls[i].token, calls[i].role)
  /\ Logged => log[Len(log)] = LogRecordOf(token, role)
  /\ (pc # "idle" /\ result # ZeroResult) => Logged
  /\ pc = "L10" => result = ZeroResult

C6_Witness ==
  /\ pc = "L13"
  /\ Len(calls) = 1
  /\ Len(log) = 2
  /\ log[1] # log[2]
  /\ result.authn_id # NULL
  /\ ~result.authorized

\* C7: the outcome of validate does not depend on the position in the host
\* lifecycle: a call accepts whether or not the startup or the shutdown step
\* came before it, and the host, which skips the NULL hooks, is never in a
\* state where a request is rejected or cannot proceed.
C7_AcceptsAnywhere ==
  /\ pc = "L14" => result.authorized = TRUE
  /\ \A i \in DOMAIN calls :
       calls[i].ret = TRUE /\ calls[i].result.authorized = TRUE
  /\ (hostTable # NULL /\ pc = "idle" /\ Len(calls) < MaxCalls) =>
       \A st \in ModuleStates, tok \in Tokens, r \in Roles :
         ENABLED ValidateCall(st, tok, r)
  /\ pc # "idle" => ENABLED ValidateStep

\* A call that runs after the shutdown step of a host that never ran its
\* startup step (the host's steps are taken between calls only).
C7_Witness ==
  /\ pc = "L14"
  /\ stopped /\ ~started
  /\ state.private_data = NULL
  /\ Len(calls) = 1
  /\ result.authorized

\* C8: the outcome of validate is a function of the token alone: calls with
\* the same token and different roles, module states or histories return the
\* same value, the same authorized flag and the same authn_id content.
C8_TokenDetermines ==
  \A i, j \in DOMAIN calls :
    StrAt(calls[i].token) = StrAt(calls[j].token) =>
      /\ calls[i].ret = calls[j].ret
      /\ calls[i].result.authorized = calls[j].result.authorized
      /\ StrAt(calls[i].result.authn_id) = StrAt(calls[j].result.authn_id)

C8_Witness ==
  /\ Len(calls) = 2
  /\ StrAt(calls[1].token) = StrAt(calls[2].token)
  /\ StrAt(calls[1].role) # StrAt(calls[2].role)
  /\ calls[1].state # calls[2].state
  /\ StrAt(calls[1].result.authn_id) = StrAt(calls[2].result.authn_id)

\* C9: a step of validate changes only result, the log and the memory it
\* allocates (and its own local and position): the module state, the token,
\* the role, every existing chunk and the callback table stay as they were.
C9_Frame ==
  [][pc # "idle" =>
       /\ state' = state
       /\ token' = token
       /\ role' = role
       /\ callbacks' = callbacks
       /\ hostTable' = hostTable
       /\ Len(mem') \in {Len(mem), Len(mem) + 1}
       /\ \A c \in DOMAIN mem : mem'[c] = mem[c]]_vars

C9_Witness ==
  /\ pc = "idle"
  /\ Len(calls) = 2
  /\ state.private_data # NULL
  /\ calls[1].state.private_data = NULL
  /\ Len(mem) = Len(HostBufs) + 4

====
